---- MODULE Spec2Model ----
(***************************************************************************)
(* A model of surveyor.py: the survey of a Cb Response server for the      *)
(* unique (hostname, username, path, cmdline) tuples matching an ad-hoc    *)
(* query, each line of an indicator file, or each program of one or more   *)
(* JSON definition files.  main() is cut into steps at the points where    *)
(* the environment acts: the backend yields a record, ends the iteration,  *)
(* raises a failure, the operator presses CTRL-C, json.load rejects a file.*)
(*                                                                         *)
(* Text that the code only concatenates is a TLA+ string.  Text that the   *)
(* code inspects character by character (strip, lower, basename, splitext) *)
(* is a sequence of chunks, the chunks being the characters that matter    *)
(* (a blank, a newline, "/", ".", an upper-case letter) and runs of other   *)
(* characters; Str turns such a sequence into the string it spells.        *)
(***************************************************************************)
EXTENDS Integers, Sequences, FiniteSets, TLC

\* The backend yields at most MaxRecs process records per search.
MaxRecs == 2

----------------------------------------------------------------------------
(* Text helpers *)

RECURSIVE Str(_)
Str(cs) == IF cs = <<>> THEN "" ELSE Head(cs) \o Str(Tail(cs))

\* str.lower() on one character.
LowerChar(c) ==
  CASE c = "A" -> "a"
    [] c = "L" -> "l"
    [] c = "P" -> "p"
    [] c = "W" -> "w"
    [] OTHER -> c

Lower(cs) == [n \in DOMAIN cs |-> LowerChar(cs[n])]

Whitespace == {" ", "\t", "\n", "\r"}

RECURSIVE LStrip(_)
LStrip(cs) ==
  IF cs # <<>> /\ Head(cs) \in Whitespace THEN LStrip(Tail(cs)) ELSE cs

RECURSIVE RStrip(_)
RStrip(cs) ==
  IF cs # <<>> /\ cs[Len(cs)] \in Whitespace
    THEN RStrip(SubSeq(cs, 1, Len(cs) - 1))
    ELSE cs

\* str.strip()
Strip(cs) == RStrip(LStrip(cs))

\* ' OR '.join(parts)
RECURSIVE JoinOr(_)
JoinOr(parts) ==
  IF parts = <<>> THEN ""
  ELSE IF Len(parts) = 1 THEN parts[1]
  ELSE parts[1] \o " OR " \o JoinOr(Tail(parts))

\* os.path.basename: what follows the last "/".
Basename(p) ==
  LET slashes == {n \in DOMAIN p : p[n] = "/"}
  IN  IF slashes = {} THEN p
      ELSE LET last == CHOOSE n \in slashes : \A m \in slashes : m <= n
           IN  SubSeq(p, last + 1, Len(p))

\* os.path.splitext(b)[0]: b up to its last ".", unless only dots precede it.
SplitextRoot(b) ==
  LET dots == {n \in DOMAIN b : b[n] = "."}
  IN  IF dots = {} THEN b
      ELSE LET last == CHOOSE n \in dots : \A m \in dots : m <= n
           IN  IF \E m \in 1..(last - 1) : b[m] # "."
                 THEN SubSeq(b, 1, last - 1)
                 ELSE b

----------------------------------------------------------------------------
(* The inputs: command-line arguments, files, and what the backend holds.  *)
(* An optional argument is <<>> (None) or <<value>>.                       *)

\* Python truthiness of an optional int: None and 0 are false.
Truthy(opt) == opt # <<>> /\ opt[1] # 0

DayCounts == {<<>>, <<0>>, <<1>>}
MinuteCounts == {<<>>, <<0>>, <<90>>}

\* Indicator files as readlines() returns them.
IocPadded == <<" ", "ev.il", "\n">>
IocPlain == <<"ev.il", "\n">>
IocBlank == <<" ", "\n">>
IocEmpty == <<"\n">>
IocFiles ==
  { <<IocPadded, IocPlain>>,
    <<IocEmpty, IocPlain>>,
    <<IocPlain, IocBlank>> }

\* Definition files: a path and what json.load makes of the content, the
\* programs and the fields of each in the order iteritems() gives them.
AppsFile ==
  [ path |-> <<"d", "/", "apps", ".", "json">>,
    wellformed |-> TRUE,
    programs |-> << <<"P", << <<"f1", <<"a", "b">> >>, <<"f2", <<"c">> >> >> >> >> ]
BadFile ==
  [ path |-> <<"d", "/", "bad", ".", "json">>,
    wellformed |-> FALSE,
    programs |-> <<>> ]
WebFile ==
  [ path |-> <<"d", "/", "s", ".", "v2", "/", "web", ".", "json">>,
    wellformed |-> TRUE,
    programs |-> << <<"chrome", << <<"process_name", <<"chrome.exe">> >> >> >>,
                    <<"idle", <<>> >> >> ]
DefinitionFileLists ==
  { <<AppsFile, WebFile>>,
    <<WebFile, AppsFile>>,
    <<AppsFile, BadFile, WebFile>>,
    <<BadFile, WebFile>> }

NoArgs ==
  [ query |-> <<>>, iocfile |-> <<>>, ioctype |-> <<>>,
    definition_files |-> <<>>, days |-> <<>>, minutes |-> <<>> ]

\* The argument sets argparse lets through: exactly one survey criterion,
\* and --ioctype with --iocfile.  Every pair of day and minute counts is
\* tried with --query, one of them with each of the file modes.
QueryArgs ==
  { [NoArgs EXCEPT !.days = d, !.minutes = m, !.query = <<"process_name:evil.exe">>]
      : d \in DayCounts, m \in MinuteCounts }
IocArgs ==
  { [NoArgs EXCEPT !.minutes = <<90>>, !.iocfile = <<f>>, !.ioctype = <<"domain">>]
      : f \in IocFiles }
DefArgs ==
  { [NoArgs EXCEPT !.days = <<1>>, !.minutes = <<90>>, !.definition_files = fs]
      : fs \in DefinitionFileLists }
ArgSets == QueryArgs \cup IocArgs \cup DefArgs

\* The process records the backend may yield for a search.
Proc(h, u, p, c) == [hostname |-> h, username |-> u, path |-> p, cmdline |-> c]
Processes ==
  { Proc(<<"W", "in-1">>, <<"a", "lice">>, "c:\\evil.exe", "evil.exe /s"),
    Proc(<<"w", "in-1">>, <<"A", "lice">>, "c:\\evil.exe", "evil.exe /s"),
    Proc(<<"w", "in-1">>, <<"a", "lice">>, "C:\\Evil.exe", "evil.exe /s"),
    Proc(<<"w", "in-1">>, <<"a", "lice">>, "c:\\evil.exe", "evil.exe /S") }

----------------------------------------------------------------------------
(* State *)

VARIABLES
  args,        \* the parsed command line
  pc,          \* "start", "next" (between sources), "iter" (inside a search),
               \* "done" (output closed), "crashed" (uncaught exception)
  query_base,  \* the time-window fragment
  output,      \* the rows written to the CSV file so far
  i,           \* indicator line / definition file being processed
  j,           \* program of the definition file (0: file not loaded yet)
  k,           \* field of the program's criteria being searched
  query,       \* the filter of the search in progress
  results,     \* the set the search in progress accumulates
  fetched,     \* records the backend has yielded in the search in progress
  queries,     \* history: every filter handed to the backend, in order
  returned,    \* history: <<filter, record>> yielded for the latest source
  mark,        \* history: the rows in output before those of the latest source
  sets,        \* history: the result set each completed source returned
  lastEvent    \* history: the step taken last

vars == <<args, pc, query_base, output, i, j, k, query, results, fetched,
          queries, returned, mark, sets, lastEvent>>

Header == <<"endpoint", "username", "process_path", "cmdline", "program", "source">>

QueryMode == args.query # <<>> /\ args.query[1] # ""
IocMode == ~QueryMode /\ args.iocfile # <<>>
DefMode == ~QueryMode /\ ~IocMode

Init ==
  /\ args \in ArgSets
  /\ pc = "start"
  /\ query_base = ""
  /\ output = <<>>
  /\ i = 1
  /\ j = 0
  /\ k = 0
  /\ query = ""
  /\ results = {}
  /\ fetched = 0
  /\ queries = <<>>
  /\ returned = {}
  /\ mark = 0
  /\ sets = <<>>
  /\ lastEvent = "none"

----------------------------------------------------------------------------
(* Pure parts of main() and of the two search functions *)

\* The time window: query_base.
TimeWindow(days, minutes) ==
  IF Truthy(days) THEN " start:-" \o ToString(days[1] * 1440) \o "m"
  ELSE IF Truthy(minutes) THEN " start:-" \o ToString(minutes[1]) \o "m"
  ELSE ""

\* Tuple without the lower() of the username.
TupleKeepsUserCase(proc) ==
  <<Str(Lower(proc.hostname)), Str(proc.username), proc.path, proc.cmdline>>

\* The tuple added to the result set for one process record.
Tuple(proc) ==
  <<Str(Lower(proc.hostname)), Str(Lower(proc.username)), proc.path, proc.cmdline>>

\* FieldQuery without the parentheses around the group.
FieldQueryUnwrapped(search_field, terms) ==
  JoinOr([n \in DOMAIN terms |-> search_field \o ":" \o terms[n]])

\* The query nested_process_search builds for one field of the criteria.
FieldQuery(search_field, terms) ==
  "(" \o JoinOr([n \in DOMAIN terms |-> search_field \o ":" \o terms[n]]) \o ")"

\* The query main() builds for one indicator.
IocQuery(ioctype, ioc) == ioctype \o ":" \o Str(ioc)

\* The CSV row of one tuple (the utf8 encoding leaves this text as it is).
Row(r, program, source) == <<r[1], r[2], r[3], r[4], program, source>>

\* The orders in which a set may be iterated.
Orders(S) ==
  {o \in [1..Cardinality(S) -> S] : \A a, b \in DOMAIN o : a # b => o[a] # o[b]}

Lines == args.iocfile[1]
Files == args.definition_files
Programs == Files[i].programs
Criteria == Programs[j][2]

\* Program with the time window left on the query text.
ProgramWithWindow ==
  IF QueryMode THEN args.query[1] \o query_base
  ELSE IF IocMode THEN Str(Strip(Lines[i]))
  ELSE Programs[j][1]

\* The last two columns of the rows of the source being processed.
Program ==
  IF QueryMode THEN args.query[1]
  ELSE IF IocMode THEN Str(Strip(Lines[i]))
  ELSE Programs[j][1]
Source ==
  IF QueryMode THEN "query"
  ELSE IF IocMode THEN "ioc"
  ELSE Str(SplitextRoot(Basename(Files[i].path)))

AllSourcesDone ==
  IF QueryMode THEN i > 1
  ELSE IF IocMode THEN i > Len(Lines)
  ELSE i > Len(Files)

----------------------------------------------------------------------------
(* Steps *)

\* cb_conn.select(Process).where(q): the filter goes to the backend.
Issue(q) ==
  /\ query' = q
  /\ queries' = Append(queries, q)
  /\ fetched' = 0
  /\ pc' = "iter"

\* StartSource without results = set(): the set of the previous search
\* is added to.
StartSourceKeepsResults(q) ==
  /\ results' = results
  /\ returned' = {}
  /\ mark' = Len(output)
  /\ lastEvent' = "search"
  /\ Issue(q)

\* Entry of process_search / nested_process_search: results = set().
StartSource(q) ==
  /\ results' = {}
  /\ returned' = {}
  /\ mark' = Len(output)
  /\ lastEvent' = "search"
  /\ Issue(q)

\* The rows main() writes for a returned result set, in the set's order.
WriteRows(rs) ==
  \E o \in Orders(rs) :
    output' = output \o [n \in DOMAIN o |-> Row(o[n], Program, Source)]

\* The search function returns rs; main() writes its rows and moves on.
Return(rs, ev) ==
  /\ WriteRows(rs)
  /\ sets' = Append(sets, rs)
  /\ IF DefMode THEN j' = j + 1 /\ i' = i ELSE i' = i + 1 /\ j' = j
  /\ pc' = "next"
  /\ lastEvent' = ev

\* Start without the header row.
StartWithoutHeader ==
  /\ pc = "start"
  /\ query_base' = TimeWindow(args.days, args.minutes)
  /\ output' = <<>>
  /\ pc' = "next"
  /\ mark' = 0
  /\ lastEvent' = "start"
  /\ UNCHANGED <<args, i, j, k, query, results, fetched, queries, returned, sets>>

\* main() up to the first search: the time window and the header row.
Start ==
  /\ pc = "start"
  /\ query_base' = TimeWindow(args.days, args.minutes)
  /\ output' = <<Header>>
  /\ pc' = "next"
  /\ mark' = 1
  /\ lastEvent' = "start"
  /\ UNCHANGED <<args, i, j, k, query, results, fetched, queries, returned, sets>>

\* --query: process_search(cb, args.query, query_base)
QuerySearch ==
  /\ pc = "next"
  /\ QueryMode
  /\ i = 1
  /\ StartSource(args.query[1] \o query_base)
  /\ UNCHANGED <<args, query_base, output, i, j, k, sets>>

\* --iocfile: the next line, stripped, is searched.
IocSearch ==
  /\ pc = "next"
  /\ IocMode
  /\ i <= Len(Lines)
  /\ StartSource(IocQuery(args.ioctype[1], Strip(Lines[i])) \o query_base)
  /\ UNCHANGED <<args, query_base, output, i, j, k, sets>>

\* LoadFile with the ValueError caught and the file skipped.
LoadFileSkipsMalformed ==
  /\ pc = "next"
  /\ DefMode
  /\ i <= Len(Files)
  /\ j = 0
  /\ IF Files[i].wellformed
       THEN i' = i /\ j' = 1 /\ lastEvent' = "loaded"
       ELSE i' = i + 1 /\ j' = j /\ lastEvent' = "parse_error"
  /\ UNCHANGED <<args, pc, query_base, output, k, query, results, fetched,
                 queries, returned, mark, sets>>

\* The next definition file is opened and parsed; json.load raises
\* ValueError on malformed JSON and nothing catches it.
LoadFile ==
  /\ pc = "next"
  /\ DefMode
  /\ i <= Len(Files)
  /\ j = 0
  /\ IF Files[i].wellformed
       THEN j' = 1 /\ pc' = pc /\ lastEvent' = "loaded"
       ELSE j' = j /\ pc' = "crashed" /\ lastEvent' = "parse_error"
  /\ UNCHANGED <<args, query_base, output, i, k, query, results, fetched,
                 queries, returned, mark, sets>>

\* nested_process_search for the next program: the first field's query, or,
\* for empty criteria, the empty result set at once.
ProgramSearch ==
  /\ pc = "next"
  /\ DefMode
  /\ i <= Len(Files)
  /\ j >= 1
  /\ j <= Len(Programs)
  /\ IF Criteria = <<>>
       THEN /\ results' = {}
            /\ returned' = {}
            /\ mark' = Len(output)
            /\ Return({}, "end")
            /\ UNCHANGED <<k, query, queries, fetched>>
       ELSE /\ k' = 1
            /\ StartSource(FieldQuery(Criteria[1][1], Criteria[1][2]) \o query_base)
            /\ UNCHANGED <<output, i, j, sets>>
  /\ UNCHANGED <<args, query_base>>

\* The programs of the file are exhausted.
EndFile ==
  /\ pc = "next"
  /\ DefMode
  /\ i <= Len(Files)
  /\ j > Len(Programs)
  /\ i' = i + 1
  /\ j' = 0
  /\ lastEvent' = "endfile"
  /\ UNCHANGED <<args, pc, query_base, output, k, query, results, fetched,
                 queries, returned, mark, sets>>

\* output_file.close()
Finish ==
  /\ pc = "next"
  /\ AllSourcesDone
  /\ pc' = "done"
  /\ lastEvent' = "close"
  /\ UNCHANGED <<args, query_base, output, i, j, k, query, results, fetched,
                 queries, returned, mark, sets>>

\* The backend yields one more process record: results.add(...)
Yield ==
  /\ pc = "iter"
  /\ fetched < MaxRecs
  /\ \E proc \in Processes :
       /\ results' = results \cup {Tuple(proc)}
       /\ returned' = returned \cup {<<query, proc>>}
  /\ fetched' = fetched + 1
  /\ lastEvent' = "yield"
  /\ UNCHANGED <<args, pc, query_base, output, i, j, k, query, queries, mark, sets>>

\* The backend's result sequence ends: the next field of the criteria is
\* searched, or the function returns.
Exhausted ==
  /\ pc = "iter"
  /\ IF DefMode /\ k < Len(Criteria)
       THEN /\ k' = k + 1
            /\ Issue(FieldQuery(Criteria[k + 1][1], Criteria[k + 1][2]) \o query_base)
            /\ lastEvent' = "nextfield"
            /\ UNCHANGED <<output, i, j, results, returned, mark, sets>>
       ELSE /\ Return(results, "end")
            /\ UNCHANGED <<k, query, results, fetched, queries, returned, mark>>
  /\ UNCHANGED <<args, query_base>>

\* Interrupt without the try block: the KeyboardInterrupt leaves main().
InterruptUncaught ==
  /\ pc = "iter"
  /\ pc' = "crashed"
  /\ lastEvent' = "interrupt"
  /\ UNCHANGED <<args, query_base, output, i, j, k, query, results, fetched,
                 queries, returned, mark, sets>>

\* KeyboardInterrupt inside the try block of a search function: "Returning
\* what we have".
Interrupt ==
  /\ pc = "iter"
  /\ Return(results, "interrupt")
  /\ UNCHANGED <<args, query_base, k, query, results, fetched, queries,
                 returned, mark>>

\* BackendError with every exception caught as KeyboardInterrupt is.
BackendErrorSwallowed ==
  /\ pc = "iter"
  /\ Return(results, "error")
  /\ UNCHANGED <<args, query_base, k, query, results, fetched, queries,
                 returned, mark>>

\* Any other exception raised by the backend leaves the search function and
\* main() uncaught.
BackendError ==
  /\ pc = "iter"
  /\ pc' = "crashed"
  /\ lastEvent' = "error"
  /\ UNCHANGED <<args, query_base, output, i, j, k, query, results, fetched,
                 queries, returned, mark, sets>>

\* KeyboardInterrupt outside a search function is not caught either.
InterruptOutside ==
  /\ pc = "next"
  /\ pc' = "crashed"
  /\ lastEvent' = "interrupt_outside"
  /\ UNCHANGED <<args, query_base, output, i, j, k, query, results, fetched,
                 queries, returned, mark, sets>>

Next ==
  \/ Start
  \/ QuerySearch
  \/ IocSearch
  \/ LoadFile
  \/ ProgramSearch
  \/ EndFile
  \/ Finish
  \/ Yield
  \/ Exhausted
  \/ Interrupt
  \/ BackendError
  \/ InterruptOutside

Spec == Init /\ [][Next]_vars

----------------------------------------------------------------------------
(* What the properties below read off a state.  The expected values are    *)
(* written out for the inputs above; none is computed with the operators   *)
(* that model the code.                                                    *)

\* The rows written for the latest source.
LatestRows == SubSeq(output, mark + 1, Len(output))

\* The records the backend yielded for the latest source.
LatestRecords == {p[2] : p \in returned}

\* The latest source's search function has returned and its rows are written.
LatestReturned == pc \in {"next", "done"} /\ Len(sets) > 0

\* The lower-cased spelling of the hostnames and usernames of Processes.
Folded(cs) ==
  CASE cs \in {<<"W", "in-1">>, <<"w", "in-1">>} -> "win-1"
    [] cs \in {<<"A", "lice">>, <<"a", "lice">>} -> "alice"

\* The first four columns of row are the Result Tuple of record r.
RowIsOf(row, r) ==
  /\ row[1] = Folded(r.hostname)
  /\ row[2] = Folded(r.username)
  /\ row[3] = r.path
  /\ row[4] = r.cmdline

\* The label and kind of every source of the run, in processing order, a
\* malformed definition file ending the list.
ExpectedSources ==
  IF QueryMode THEN << <<"process_name:evil.exe", "query">> >>
  ELSE IF IocMode
    THEN [n \in DOMAIN Lines |->
            IF Lines[n] \in {IocPadded, IocPlain} THEN <<"ev.il", "ioc">>
                                                  ELSE <<"", "ioc">>]
  ELSE CASE Files = <<AppsFile, WebFile>> ->
              << <<"P", "apps">>, <<"chrome", "web">>, <<"idle", "web">> >>
         [] Files = <<WebFile, AppsFile>> ->
              << <<"chrome", "web">>, <<"idle", "web">>, <<"P", "apps">> >>
         [] Files = <<AppsFile, BadFile, WebFile>> -> << <<"P", "apps">> >>
         [] Files = <<BadFile, WebFile>> -> <<>>

RECURSIVE SumCard(_)
SumCard(ss) == IF ss = <<>> THEN 0 ELSE Cardinality(Head(ss)) + SumCard(Tail(ss))

\* A source is left that no search has been started for.
SourcesLeft ==
  IF QueryMode THEN FALSE
  ELSE IF IocMode THEN i < Len(Lines)
  ELSE i < Len(Files) \/ (j >= 1 /\ j < Len(Programs))

----------------------------------------------------------------------------
(* C1 *)

\* C1 as claimed: every filter handed to the backend in definition-file mode
\* is one program's combined filter, all its field groups concatenated,
\* followed by the time window.
C1_OneCombinedFilter ==
  DefMode =>
    \A n \in DOMAIN queries :
      queries[n] \in { "(f1:a OR f1:b) (f2:c)" \o query_base,
                       "(process_name:chrome.exe)" \o query_base }

\* C1 amended: one filter per field is searched.  Every filter is a single
\* parenthesised OR-joined field group followed by the time window, and when
\* the search of program P = {f1:[a,b], f2:[c]} has run to its end the
\* filters searched for it are "(f1:a OR f1:b)" and "(f2:c)", each with the
\* time window, in the order of the fields, and its Result Set is the set of
\* tuples of the records returned for either filter.
C1_OneFilterPerField ==
  DefMode =>
    /\ \A n \in DOMAIN queries :
         queries[n] \in { "(f1:a OR f1:b)" \o query_base,
                          "(f2:c)" \o query_base,
                          "(process_name:chrome.exe)" \o query_base }
    /\ (pc = "next" /\ lastEvent = "end" /\ j >= 2 /\ Programs[j - 1][1] = "P") =>
         /\ Len(queries) >= 2
         /\ SubSeq(queries, Len(queries) - 1, Len(queries))
              = << "(f1:a OR f1:b)" \o query_base, "(f2:c)" \o query_base >>
         /\ \A p \in returned :
              p[1] \in {"(f1:a OR f1:b)" \o query_base, "(f2:c)" \o query_base}
         /\ sets[Len(sets)]
              = { <<Folded(r.hostname), Folded(r.username), r.path, r.cmdline>>
                    : r \in LatestRecords }

\* Program P was searched to the end, both filters returned records, and
\* the records of the two filters gave different tuples.
C1_Witness ==
  /\ DefMode
  /\ pc = "next" /\ lastEvent = "end" /\ j >= 2 /\ Programs[j - 1][1] = "P"
  /\ query_base = " start:-1440m"
  /\ \E p1, p2 \in returned :
       /\ p1[1] = "(f1:a OR f1:b) start:-1440m"
       /\ p2[1] = "(f2:c) start:-1440m"
       /\ p1[2].path # p2[2].path
  /\ Cardinality(sets[Len(sets)]) >= 2

----------------------------------------------------------------------------
(* C2 *)

\* C2 as claimed: a backend failure does not stop the survey while sources
\* are left.
C2_FailureIsolated == (lastEvent = "error" /\ SourcesLeft) => pc # "crashed"

\* C2 amended: a backend failure other than an operator interrupt leaves the
\* search function and main() uncaught.  The failing source contributes no
\* row, the rows of earlier sources stay as written, and the run stops: no
\* further source is searched.
C2_FailureAborts ==
  [][ /\ pc # "crashed"
      /\ lastEvent' = "error" =>
           /\ pc = "iter"
           /\ pc' = "crashed"
           /\ output' = output
           /\ Len(output) = mark
           /\ queries' = queries
           /\ sets' = sets ]_vars

\* A failure in the search of a later source, rows of an earlier source
\* written, sources left.
C2_Witness ==
  /\ lastEvent = "error"
  /\ pc = "crashed"
  /\ Len(sets) >= 1
  /\ Len(output) > 1
  /\ returned # {}
  /\ SourcesLeft

----------------------------------------------------------------------------
(* C3 *)

\* C3 as claimed: a malformed definition file does not stop the survey
\* while definition files are left.
C3_MalformedFileSkipped ==
  (lastEvent = "parse_error" /\ i < Len(Files)) => pc # "crashed"

\* C3 amended: at a malformed definition file the parse failure leaves
\* main() uncaught.  The malformed file yields no rows, every program of the
\* files listed before it has been processed and its rows are written, and
\* no file listed after it is processed.
C3_ParseFailureAborts ==
  lastEvent = "parse_error" =>
    /\ pc = "crashed"
    /\ Files[i] = BadFile
    /\ \A f \in 1..(i - 1) : Files[f] # BadFile
    /\ Len(sets) = Len(ExpectedSources)
    /\ Len(output) = 1 + SumCard(sets)
    /\ \A n \in 2..Len(output) : output[n][5] = "P" /\ output[n][6] = "apps"

\* The malformed file came after a file whose rows are written, and a
\* well-formed file is listed after it.
C3_Witness ==
  /\ lastEvent = "parse_error"
  /\ Len(output) > 2
  /\ i < Len(Files)
  /\ Files[i + 1].wellformed

----------------------------------------------------------------------------
(* C4 *)

\* C4: an operator interrupt during a search ends the search function with
\* the tuples collected so far.  The rows written before stay, the rows
\* added are exactly those tuples, one row each, tagged with the source, and
\* main() is between sources again, past the interrupted one.
C4_InterruptReturnsPartial ==
  [][ lastEvent' = "interrupt" =>
        /\ pc = "iter"
        /\ pc' = "next"
        /\ Len(output') = Len(output) + Cardinality(results)
        /\ SubSeq(output', 1, Len(output)) = output
        /\ { <<output'[n][1], output'[n][2], output'[n][3], output'[n][4]>>
               : n \in (Len(output) + 1)..Len(output') } = results
        /\ sets' = Append(sets, results)
        /\ queries' = queries
        /\ IF DefMode THEN j' = j + 1 /\ i' = i ELSE i' = i + 1 ]_vars

\* The interrupt came in the search of the second field of a program, after
\* the first field gave a tuple, and rows of an earlier source are written.
C4_Witness ==
  /\ lastEvent = "interrupt"
  /\ DefMode
  /\ k = 2
  /\ \E p \in returned : p[1] = "(f1:a OR f1:b) start:-1440m"
  /\ sets[Len(sets)] # {}
  /\ mark > 1
  /\ Len(output) > mark

----------------------------------------------------------------------------
(* C5 *)

\* C5 as claimed: when an indicator file has been processed, the searches
\* issued are the <ioctype>:<line> filters of its non-blank lines.
C5_BlankLinesSkipped ==
  (IocMode /\ pc = "done") =>
    /\ Len(queries) = Cardinality({n \in DOMAIN Lines : Lines[n] \in {IocPadded, IocPlain}})
    /\ \A n \in DOMAIN queries : queries[n] = "domain:ev.il" \o query_base

----------------------------------------------------------------------------
(* C6 *)

\* C6: every row written for a source carries the tuple (hostname
\* lower-cased, username lower-cased, path, cmdline) of a record the backend
\* returned for a filter of that source, and no two rows of the source carry
\* the same tuple.
C6_RowsFromReturnedRecords ==
  pc # "start" =>
    /\ \A n \in DOMAIN LatestRows :
         /\ \E r \in LatestRecords : RowIsOf(LatestRows[n], r)
         /\ \A m \in DOMAIN LatestRows :
              m # n => SubSeq(LatestRows[m], 1, 4) # SubSeq(LatestRows[n], 1, 4)
    /\ \A p \in returned : \E n \in DOMAIN queries : queries[n] = p[1]

\* The second source's rows are written: two rows from three records, none
\* of them with the path that only the first source returned.
C6_Witness ==
  /\ LatestReturned
  /\ Len(sets) >= 2
  /\ Len(LatestRows) = 2
  /\ \E n \in 2..mark : output[n][3] = "C:\\Evil.exe"
  /\ \A r \in LatestRecords : r.path # "C:\\Evil.exe"
  /\ \E r \in LatestRecords : r.hostname = <<"W", "in-1">>

----------------------------------------------------------------------------
(* C7 *)

\* C7: of the records returned for one source, two that differ only in the
\* case of hostname and username have one row between them, and two that
\* differ in path or cmdline have a row each, path and cmdline as returned.
C7_CaseFoldedDedup ==
  LatestReturned =>
    \A r1, r2 \in LatestRecords :
      IF r1.path = r2.path /\ r1.cmdline = r2.cmdline
        THEN Cardinality({n \in DOMAIN LatestRows :
                            \/ RowIsOf(LatestRows[n], r1)
                            \/ RowIsOf(LatestRows[n], r2)}) = 1
        ELSE \E n, m \in DOMAIN LatestRows :
               /\ n # m
               /\ RowIsOf(LatestRows[n], r1)
               /\ RowIsOf(LatestRows[m], r2)

\* One source returned records differing in the case of the hostname only,
\* of the username only, and of the path only: two rows.
C7_Witness ==
  /\ LatestReturned
  /\ \E r1, r2, r3 \in LatestRecords :
       /\ r1.hostname = <<"W", "in-1">>
       /\ r2.username = <<"A", "lice">>
       /\ r3.path = "C:\\Evil.exe"
  /\ Len(LatestRows) = 2

----------------------------------------------------------------------------
(* C8 *)

\* The time window as C8 states it.
ClaimedWindow(days, minutes) ==
  IF days # <<>> THEN " start:-" \o ToString(days[1] * 1440) \o "m"
  ELSE IF minutes # <<>> THEN " start:-" \o ToString(minutes[1]) \o "m"
  ELSE ""

\* C8 as claimed: the time window is that of the day count whenever one is
\* supplied, of the minute count when only that is supplied, 0 included.
C8_WindowFromCounts ==
  pc # "start" => query_base = ClaimedWindow(args.days, args.minutes)

----------------------------------------------------------------------------
(* C9 *)

\* C9: every data row is the row of one source's Result Set, tagged with
\* that source's label and kind, and a row is written once for each source
\* whose Result Set holds its tuple under that label and kind.
C9_PerSourceProvenance ==
  pc # "start" =>
    /\ Len(sets) <= Len(ExpectedSources)
    /\ LET written == {output[n] : n \in 2..Len(output)}
           expected == UNION { { <<t[1], t[2], t[3], t[4],
                                   ExpectedSources[n][1], ExpectedSources[n][2]>>
                                  : t \in sets[n] } : n \in DOMAIN sets }
       IN  /\ written = expected
           /\ \A x \in written :
                Cardinality({n \in 2..Len(output) : output[n] = x})
                  = Cardinality({n \in DOMAIN sets :
                                   /\ <<x[1], x[2], x[3], x[4]>> \in sets[n]
                                   /\ x[5] = ExpectedSources[n][1]
                                   /\ x[6] = ExpectedSources[n][2]})

\* Two indicator lines with the same value, one of them padded, both
\* returned the same tuple: the row is written twice.
C9_Witness ==
  /\ IocMode
  /\ Lines = <<IocPadded, IocPlain>>
  /\ pc = "done"
  /\ sets[1] \cap sets[2] # {}
  /\ \E n, m \in 2..Len(output) : n # m /\ output[n] = output[m]

----------------------------------------------------------------------------
(* C10 *)

\* C10: no search is issued before the header row is written; from then on
\* the output is the header row followed by as many data rows as the Result
\* Sets of the sources hold together, and after an ad-hoc query that
\* returned no record it is the header row alone.
C10_HeaderThenRows ==
  /\ pc = "start" => (queries = <<>> /\ output = <<>>)
  /\ pc # "start" =>
       /\ Len(output) >= 1
       /\ output[1] = Header
       /\ \A n \in 2..Len(output) : output[n] # Header
       /\ Len(output) = 1 + SumCard(sets)
  /\ (QueryMode /\ pc = "done" /\ returned = {}) => output = <<Header>>

\* An ad-hoc query with a time window was searched and returned nothing.
C10_Witness ==
  /\ QueryMode
  /\ pc = "done"
  /\ queries = <<"process_name:evil.exe start:-90m">>
  /\ returned = {}
  /\ output = <<Header>>

====
